---- MODULE Spec2Model ----
(***************************************************************************)
(* Database suppliers of data-dealer (src/dealer/supplier/database.py):    *)
(* the key-value supplier Dynamo and the relational suppliers Mssql and    *)
(* Redshift, each with read and write.                                     *)
(*                                                                         *)
(* Every handler is a pure operator over the call's arguments and the      *)
(* answers of the backing store; an action is one whole call.  The state   *)
(* keeps the relational target table (the only thing that outlives a       *)
(* call) and a record of the last call: its arguments, the store calls it  *)
(* issued in order, what it logged, how it ended and what it returned.     *)
(*                                                                         *)
(* A Python string is a sequence of symbols; the delimiters ",", "=",      *)
(* ":", " " are symbols of their own and a column name is one symbol.      *)
(* A statement the driver may reject (truncate, bulk insert, a put) gets   *)
(* its answer from the environment.  connect() itself is taken on its      *)
(* success path: a failed connect re-raises before any handler logic.      *)
(* The start/stop messages of the log_method decorator (dealer.process)    *)
(* are not part of logs; logs holds what the handlers log themselves.      *)
(* The interpreter is an input of a call (env.py3): zip() builds a list    *)
(* under Python 2 and a one-shot iterator under Python 3, and exceptions   *)
(* have no .message under Python 3.                                        *)
(***************************************************************************)
EXTENDS Integers, Sequences, FiniteSets, TLC

\* ---------------------------------------------------------------- bounds
MaxRecords == 2     \* records in a dataset handed to write
MaxRows    == 2     \* rows the relational target table can hold
MaxPages   == 2     \* pages of a generated scan
MaxLimit   == 2     \* largest generated limit option

\* ------------------------------------------------------- Python helpers
NoneVal == [some |-> FALSE]
Some(v) == [some |-> TRUE, v |-> v]

EmptyKw == [n \in {} |-> 0]

\* kwargs.get(name)
kwget(kw, name) == IF name \in DOMAIN kw THEN Some(kw[name]) ELSE NoneVal

\* truth value of an optional string / an optional integer
TruthyStr(o) == o.some /\ o.v # <<>>
TruthyInt(o) == o.some /\ o.v # 0

\* str.split(sep): '' splits to ['']
RECURSIVE split(_, _)
split(s, sep) ==
    IF \E i \in 1..Len(s) : s[i] = sep
    THEN LET i == CHOOSE i \in 1..Len(s) :
                      s[i] = sep /\ \A j \in 1..(i - 1) : s[j] # sep
         IN  <<SubSeq(s, 1, i - 1)>> \o split(SubSeq(s, i + 1, Len(s)), sep)
    ELSE <<s>>

\* sep.join(list)
RECURSIVE join(_, _)
join(sep, l) ==
    IF l = <<>> THEN <<>>
    ELSE IF Len(l) = 1 THEN l[1]
    ELSE l[1] \o sep \o join(sep, Tail(l))

\* list[:n] for n >= 0
Take(l, n) == SubSeq(l, 1, IF n < Len(l) THEN n ELSE Len(l))

Min(a, b) == IF a < b THEN a ELSE b

\* sys.maxsize (of a 32-bit build; no list here comes near it)
sys_maxsize == 2147483647

ascii_lowercase ==
    << "a", "b", "c", "d", "e", "f", "g", "h", "i", "j", "k", "l", "m",
       "n", "o", "p", "q", "r", "s", "t", "u", "v", "w", "x", "y", "z" >>

\* one world of a running call: store calls issued, log records, the
\* exception in flight ("" when none)
World0 == [calls |-> <<>>, logs |-> <<>>, exc |-> ""]

Log(w, level)  == [w EXCEPT !.logs = Append(@, level)]
Call(w, c)     == [w EXCEPT !.calls = Append(@, c)]
Raise(w, e)    == [w EXCEPT !.exc = e]

\* ------------------------------------------------------------- datasets
Columns == << <<"k">>, <<"x">>, <<"y">>, <<"w">> >>

\* dtype.str of each column of the data frame
Dtype(c) ==
    CASE c = <<"k">> -> <<"<", "i", "8">>
      [] c = <<"x">> -> <<"<", "f", "8">>
      [] c = <<"w">> -> <<"<", "M", "8">>
      [] OTHER       -> <<"|", "O">>

\* the i-th record of the pool datasets are cut from
Record(i) ==
    [c \in {Columns[j] : j \in 1..Len(Columns)} |->
        CASE c = <<"k">> -> [t |-> "int",       v |-> i]
          [] c = <<"x">> -> [t |-> "float",     v |-> 10 + i]
          [] c = <<"y">> -> [t |-> "str",       v |-> 20 + i]
          [] OTHER       -> [t |-> "Timestamp", v |-> 30 + i]]

Dataset(n) == [cols |-> Columns, rows |-> [i \in 1..n |-> Record(i)]]
Datasets   == {Dataset(n) : n \in 0..MaxRecords}

\* ================================================================ Dynamo
\* the scan of a table whose pages have the given sizes: page p holds the
\* items numbered after those of the pages before it
RECURSIVE PageStart(_, _)
PageStart(sizes, p) == IF p = 1 THEN 0 ELSE PageStart(sizes, p - 1) + sizes[p - 1]

Page(sizes, p) == [i \in 1..sizes[p] |-> PageStart(sizes, p) + i]

\* table.scan(**params): the response for page p; LastEvaluatedKey is
\* present on every page but the last
scan(sizes, p) == [Items |-> Page(sizes, p), HasLastEvaluatedKey |-> p < Len(sizes)]

ScanCall(params, p) ==
    [op |-> "scan", page |-> p, projection |-> params, start |-> p > 1]

OverLimit_ge(n, kw) ==
    n >= (IF "limit" \in DOMAIN kw THEN kw["limit"] ELSE sys_maxsize)

\* len(items) > kwargs.get('limit', sys.maxsize)
OverLimit(n, kw) ==
    n > (IF "limit" \in DOMAIN kw THEN kw["limit"] ELSE sys_maxsize)

\* the while loop of Dynamo.read, entered with the response of page p
RECURSIVE ScanLoop(_, _, _, _, _)
ScanLoop(w, sizes, p, params, kw) ==
    IF ~scan(sizes, p).HasLastEvaluatedKey THEN w
    ELSE IF OverLimit(Len(w.items), kw)
    THEN Log(w, "critical")
    ELSE ScanLoop([Call(w, ScanCall(params, p + 1))
                      EXCEPT !.items = @ \o scan(sizes, p + 1).Items],
                  sizes, p + 1, params, kw)

Dynamo_connect(w) == Call(w, [op |-> "Table"])

Dynamo_read(sizes, kw) ==
    LET w0     == Dynamo_connect(World0)
        query  == kwget(kw, "query")
        qtype  == kwget(kw, "query_type")
        params == IF TruthyStr(query) THEN query ELSE NoneVal
    IN  IF ~TruthyStr(qtype)
        THEN LET w1 == [calls |-> Append(w0.calls, ScanCall(params, 1)),
                        logs  |-> w0.logs, exc |-> "",
                        items |-> scan(sizes, 1).Items]
                 w2 == ScanLoop(w1, sizes, 1, params, kw)
                 items == IF TruthyInt(kwget(kw, "limit"))
                          THEN Take(w2.items, kw["limit"])
                          ELSE w2.items
             IN  [Log(w2, "info") EXCEPT !.items = items]
        ELSE [calls |-> w0.calls, logs |-> <<"error">>,
              exc |-> "NotImplementedError", items |-> <<>>]

\* Dynamo._encode: int and float become Decimal(str(v)), a Timestamp its
\* formatted string, anything else passes
encode(item) ==
    [c \in DOMAIN item |->
        IF item[c].t \in {"float", "int"} THEN [t |-> "Decimal", v |-> item[c].v]
        ELSE IF item[c].t = "Timestamp" THEN [t |-> "str", v |-> item[c].v]
        ELSE item[c]]

\* data.to_dict(orient='records') followed by _encode of every item
Items(d) == [i \in 1..Len(d.rows) |-> encode(d.rows[i])]

PutCall(item, ok) == [op |-> "put_item", Item |-> item, ok |-> ok]

PutRejected_swallowed(w, item, py3) == Call(w, PutCall(item, FALSE))

\* the except clause of Dynamo._merge: print, then raise Exception.  Under
\* Python 3 the handler's ex.message raises AttributeError before that.
PutRejected(w, item, py3) ==
    Raise(Call(w, PutCall(item, FALSE)),
          IF py3 THEN "AttributeError" ELSE "Exception")

\* the for loop of Dynamo._merge from item i on; the store rejects the
\* put of item reject_at (0: none)
RECURSIVE MergeLoop(_, _, _, _, _)
MergeLoop(w, items, i, reject_at, py3) ==
    IF i > Len(items) THEN w
    ELSE LET w1 == IF i = reject_at THEN PutRejected(w, items[i], py3)
                   ELSE Call(w, PutCall(items[i], TRUE))
         IN  IF w1.exc # "" THEN w1
             ELSE MergeLoop(w1, items, i + 1, reject_at, py3)

Dynamo__merge(w, d, reject_at, py3) ==
    LET items == Items(d)
        w1 == Call(w, [op |-> "batch_writer.__enter__"])
        w2 == MergeLoop(w1, items, 1, reject_at, py3)
        w3 == Call(w2, [op |-> "batch_writer.__exit__"])
    IN  IF w3.exc = "" THEN Log(w3, "info") ELSE w3

\* zip(a, b): as long as the shorter argument
zip(a, b) == [i \in 1..Min(Len(a), Len(b)) |-> <<a[i], b[i]>>]

Placeholders == [i \in 1..Len(ascii_lowercase) |-> <<":", ascii_lowercase[i]>>]

ue_format(expression)  == zip([i \in 1..Len(expression) |-> expression[i][1]], Placeholders)
eav_format(expression) == zip([i \in 1..Len(expression) |-> expression[i][2]], Placeholders)

\* ['{} = {}'.format(*z) for z in ue_format]
ue(expression) ==
    LET f == ue_format(expression)
    IN  [i \in 1..Len(f) |-> f[i][1] \o <<" ", "=", " ">> \o f[i][2]]

UpdateExpression(expression) == <<"set", " ">> \o join(<<",">>, ue(expression))

\* {z[1]: item[z[0]] for z in eav}: a later pair wins a repeated placeholder
ExpressionAttributeValues(eav, item) ==
    [p \in {eav[i][2] : i \in 1..Len(eav)} |->
        item[eav[CHOOSE i \in 1..Len(eav) :
                    eav[i][2] = p /\ \A j \in (i + 1)..Len(eav) : eav[j][2] # p][1]]]

UpdateCall(key, expression, eav, item) ==
    [op |-> "update_item",
     Key |-> [k \in {key[i] : i \in 1..Len(key)} |-> item[k]],
     UpdateExpression |-> UpdateExpression(expression),
     ExpressionAttributeValues |-> ExpressionAttributeValues(eav, item)]

\* what is left of eav_format when the loop reaches item i: zip() is a list
\* under Python 2 and a one-shot iterator under Python 3, which the first
\* item's comprehension drains
EavAt(expression, i, py3) ==
    IF py3 /\ i > 1 THEN <<>> ELSE eav_format(expression)

\* the for loop of Dynamo._update from item i on
RECURSIVE UpdateLoop(_, _, _, _, _, _)
UpdateLoop(w, items, i, key, expression, py3) ==
    IF i > Len(items) THEN w
    ELSE LET item == items[i]
             eav  == EavAt(expression, i, py3)
         IN  IF \/ \E j \in 1..Len(key) : key[j] \notin DOMAIN item
                \/ \E j \in 1..Len(eav) : eav[j][1] \notin DOMAIN item
             THEN Raise(w, "KeyError")
             ELSE UpdateLoop(Call(w, UpdateCall(key, expression, eav, item)),
                             items, i + 1, key, expression, py3)

Dynamo__update(w, d, key, expression, py3) ==
    LET items == Items(d)
    IN  IF ~key.some \/ ~expression.some THEN Raise(w, "AttributeError")
        ELSE LET keys  == split(key.v, ",")
                 exprs == LET parts == split(expression.v, ",")
                          IN  [i \in 1..Len(parts) |-> split(parts[i], "=")]
             IN  IF \E i \in 1..Len(exprs) : Len(exprs[i]) < 2
                 THEN Raise(w, "IndexError")
                 ELSE LET w1 == UpdateLoop(w, items, 1, keys, exprs, py3)
                      IN  IF w1.exc = "" THEN Log(w1, "info") ELSE w1

Dynamo_write(d, lt, kw, reject_at, py3) ==
    LET w0 == Dynamo_connect(World0)
    IN  IF lt = "merge" THEN Dynamo__merge(w0, d, reject_at, py3)
        ELSE IF lt = "overwrite"
        THEN Raise(Log(w0, "error"), "NotImplementedError")
        ELSE IF lt = "update"
        THEN IF ~TruthyStr(kwget(kw, "expression")) /\ ~TruthyStr(kwget(kw, "key"))
             THEN Raise(Log(w0, "error"), "EnvironmentError")
             ELSE Dynamo__update(w0, d, kwget(kw, "key"), kwget(kw, "expression"), py3)
        ELSE Log(w0, "critical")

\* ======================================================= Mssql, Redshift
\* columns(data): data.columns.values.tolist()
columns(d) == d.cols

Mssql_get_option(dtype) ==
    IF (\E i \in 1..Len(dtype) : dtype[i] = "i") \/ (\E i \in 1..Len(dtype) : dtype[i] = "f")
    THEN <<"%d">> ELSE <<"%s">>

Redshift_get_option(dtype) == <<"%s">>

\* dtype.str of a column of the stamped data frame
DtypeOf(c) == IF c = <<"insert_timestamp">> THEN <<"|", "O">> ELSE Dtype(c)

Mssql_options(d)    == [i \in 1..Len(d.cols) |-> Mssql_get_option(DtypeOf(d.cols[i]))]
Redshift_options(d) == [i \in 1..Len(d.cols) |-> Redshift_get_option(DtypeOf(d.cols[i]))]

\* data['insert_timestamp'] = datetime.now().strftime(...)
Stamp(d, now) ==
    LET ts   == <<"insert_timestamp">>
        cols == IF \E i \in 1..Len(d.cols) : d.cols[i] = ts THEN d.cols
                ELSE Append(d.cols, ts)
    IN  [cols |-> cols,
         rows |-> [i \in 1..Len(d.rows) |->
                     [c \in {cols[j] : j \in 1..Len(cols)} |->
                         IF c = ts THEN [t |-> "str", v |-> now] ELSE d.rows[i][c]]]]

\* 'INSERT INTO {} ({}) VALUES ({})'.format(table, columns, options)
InsertQuery(tbl, cols, opts) ==
    <<"INSERT INTO", " ">> \o tbl \o <<" ", "(">> \o join(<<",">>, cols)
        \o <<")", " ", "VALUES", " ", "(">> \o join(<<",">>, opts) \o <<")">>

\* a world of a relational write also carries the rows of the table as the
\* open transaction sees them
SqlWorld(tbl) ==
    [calls |-> <<>>, logs |-> <<>>, exc |-> "", rows |-> tbl, returned |-> FALSE]

\* _insert, shared text of Mssql._insert and Redshift._insert but for options
Insert(w, d, tbl, now, fails, opts) ==
    LET sd    == Stamp(d, now)
        query == InsertQuery(tbl, columns(sd), opts)
        w1    == Log(w, "debug")
        c     == [op |-> "executemany", query |-> query, items |-> sd.rows,
                  ok |-> ~fails]
    IN  IF fails THEN Log(Call(w1, c), "error")
        ELSE Log([Call(w1, c) EXCEPT !.rows = @ \o sd.rows], "info")

Mssql__insert(w, d, tbl, now, fails) ==
    Insert(w, d, tbl, now, fails, Mssql_options(Stamp(d, now)))

Redshift__insert(w, d, tbl, now, fails) ==
    Insert(w, d, tbl, now, fails, Redshift_options(Stamp(d, now)))

Mssql__append(w, d, tbl, now, fails) == Mssql__insert(w, d, tbl, now, fails)

Redshift__append(w, d, tbl, now, fails) == Redshift__insert(w, d, tbl, now, fails)

Mssql__truncate(w, tbl, fails) ==
    LET c == [op |-> "execute", query |-> <<"TRUNCATE TABLE", " ">> \o tbl,
              ok |-> ~fails]
    IN  IF fails THEN Log(Call(w, c), "error")
        ELSE [Call(w, c) EXCEPT !.rows = <<>>]

Mssql__overwrite(w, d, tbl, e) ==
    Mssql__insert(Mssql__truncate(w, tbl, e.truncate_fails), d, tbl, e.now,
                  e.insert_fails)

Mssql__merge(w) == Raise(w, "NotImplementedError")

Mssql__update(w) == Raise(w, "NotImplementedError")

Unsupported_no_return(w) == Log(w, "critical")

\* the else branch of write: logger.critical(...), return
Unsupported(w) == [Log(w, "critical") EXCEPT !.returned = TRUE]

\* cnxn.commit()
Commit(w) == Call(w, [op |-> "commit"])

\* leaving "with cnxn.cursor() as cursor" and "with self.connect(dbase) as cnxn"
Leave(w) == Call(Call(w, [op |-> "cursor.__exit__"]), [op |-> "cnxn.__exit__"])

Enter(w) == Call(Call(w, [op |-> "connect"]), [op |-> "cursor"])

Mssql_write(d, lt, kw, tblrows, e) ==
    LET w0 == SqlWorld(tblrows)
    IN  IF ~TruthyStr(kwget(kw, "table"))
        THEN Raise(Log(w0, "error"), "ValueError")
        ELSE LET w1  == Enter(w0)
                 tbl == kw["table"]
                 w2  == IF lt = "merge" THEN Mssql__merge(w1)
                        ELSE IF lt = "append"
                        THEN Mssql__append(w1, d, tbl, e.now, e.insert_fails)
                        ELSE IF lt = "overwrite" THEN Mssql__overwrite(w1, d, tbl, e)
                        ELSE IF lt = "update" THEN Mssql__update(w1)
                        ELSE Unsupported(w1)
             IN  IF w2.exc # "" \/ w2.returned
                 THEN Leave(w2)
                 ELSE Leave(Commit(w2))

\* Redshift defines _append and _insert only: looking up _merge, _overwrite
\* or _update on the instance raises AttributeError
Redshift_write(d, tbl, lt, tblrows, e) ==
    LET w1 == Enter(SqlWorld(tblrows))
        w2 == IF lt \in {"merge", "overwrite", "update"} THEN Raise(w1, "AttributeError")
              ELSE IF lt = "append"
              THEN Redshift__append(w1, d, tbl, e.now, e.insert_fails)
              ELSE Unsupported(w1)
    IN  IF w2.exc # "" \/ w2.returned
        THEN Leave(w2)
        ELSE Leave(Commit(w2))

\* the table after the call: the transaction's rows once commit was issued,
\* the rows as they were otherwise
Committed(w, tblrows) ==
    IF \E i \in 1..Len(w.calls) : w.calls[i].op = "commit" THEN w.rows ELSE tblrows

\* read of Mssql and of Redshift (the same text): the query selects the
\* target table
SqlRead(kw, tblrows) ==
    LET w0 == [calls |-> <<>>, logs |-> <<>>, exc |-> "", items |-> <<>>]
    IN  IF ~TruthyStr(kwget(kw, "query")) /\ ~TruthyStr(kwget(kw, "query_file"))
        THEN Raise(Log(w0, "error"), "EnvironmentError")
        ELSE LET q  == IF TruthyStr(kwget(kw, "query")) THEN kw["query"]
                       ELSE <<"open_file">> \o kw["query_file"]
                 w1 == Call(w0, [op |-> "connect"])
                 w2 == Call(w1, [op |-> "read_sql", query |-> q])
                 w3 == Log([w2 EXCEPT !.items = tblrows], "info")
             IN  Call(w3, [op |-> "cnxn.__exit__"])

Mssql_read(kw, tblrows) == SqlRead(kw, tblrows)

Redshift_read(kw, tblrows) == SqlRead(kw, tblrows)

\* ----------------------------------------------------------------- state
VARIABLES
    table,      \* committed rows of the relational target table
    backend,    \* class of the last call: "Dynamo", "Mssql", "Redshift"
    method,     \* "read" or "write" ("none" before the first call)
    load_type,  \* strategy of the last write
    data,       \* dataset of the last write
    kwargs,     \* keyword options of the last call
    env,        \* what the store answered during the last call
    calls,      \* store calls the last call issued, in order
    logs,       \* severities the last call logged, in order
    outcome,    \* "returned" or the exception that left the call
    result      \* records the last read returned

vars == <<table, backend, method, load_type, data, kwargs, env,
          calls, logs, outcome, result>>

Env0 == [sizes |-> <<>>, truncate_fails |-> FALSE, insert_fails |-> FALSE,
         reject_at |-> 0, py3 |-> FALSE, now |-> 0]

Init ==
    /\ table = <<>>
    /\ backend = "none"
    /\ method = "none"
    /\ load_type = "none"
    /\ data = Dataset(0)
    /\ kwargs = EmptyKw
    /\ env = Env0
    /\ calls = <<>>
    /\ logs = <<>>
    /\ outcome = "none"
    /\ result = <<>>

Outcome(w) == IF w.exc = "" THEN "returned" ELSE w.exc

\* ------------------------------------------------------------ generators
Opt(name, S) == {EmptyKw} \cup {name :> v : v \in S}

PageSizes == {1, 2}

RECURSIVE SeqsUpTo(_, _)
SeqsUpTo(S, n) ==
    IF n = 0 THEN {<<>>}
    ELSE LET shorter == SeqsUpTo(S, n - 1)
         IN  shorter \cup {Append(s, x) : s \in {t \in shorter : Len(t) = n - 1}, x \in S}

\* generated scans, and the scan of the specification's example
PageLists == (SeqsUpTo(PageSizes, MaxPages) \ {<<>>}) \cup {<<100, 100, 50>>}

Limits == (0..MaxLimit) \cup {120}

DynamoReadKwargs ==
    {a @@ b : a \in Opt("query", {<<"k">>}), b \in Opt("limit", Limits)}
    \cup {a @@ ("query_type" :> <<"query">>) : a \in Opt("query", {<<"k">>})}

LoadTypes == {"append", "overwrite", "merge", "update", "bogus"}

TargetAttrs ==
    << "A", "B", "C", "D", "E", "F", "G", "H", "I", "J", "K", "L", "M",
       "N", "O", "P", "Q", "R", "S", "T", "U", "V", "W", "X", "Y", "Z",
       "AA", "BB" >>

\* the expression option "A=x,B=y,C=x,..." of n pairs
Expression(n) ==
    join(<<",">>, [i \in 1..n |->
        <<TargetAttrs[i], "=", IF i % 2 = 1 THEN "x" ELSE "y">>])

PairCounts == {1, 2, 27}

DynamoWriteKwargs ==
    {a @@ b : a \in Opt("key", {<<>>, <<"k">>}),
              b \in Opt("expression", {<<>>} \cup {Expression(n) : n \in PairCounts})}

\* datetime.now(), to the second
Times == {1}

TableName == <<"t">>

MssqlWriteKwargs == Opt("table", {<<>>, TableName})

SqlReadKwargs ==
    {a @@ b @@ c : a \in Opt("query", {<<"select">>}),
                   b \in Opt("query_file", {<<"f">>}),
                   c \in Opt("limit", 0..MaxLimit)}

\* the answers of the driver that the strategy can meet
SqlEnvs(lt) ==
    {[Env0 EXCEPT !.truncate_fails = tf, !.insert_fails = f, !.now = now] :
        tf \in IF lt = "overwrite" THEN BOOLEAN ELSE {FALSE},
        f \in IF lt \in {"append", "overwrite"} THEN BOOLEAN ELSE {FALSE},
        now \in IF lt \in {"append", "overwrite"} THEN Times ELSE {0}}

\* the target table holds MaxRows rows at most
Fits(d, lt) == lt \in {"append", "overwrite"} => Len(table) + Len(d.rows) <= MaxRows

\* --------------------------------------------------------------- actions
DynamoRead ==
    \E kw \in DynamoReadKwargs :
    \E sizes \in IF "query_type" \in DOMAIN kw THEN {<<1>>} ELSE PageLists :
        LET r == Dynamo_read(sizes, kw)
        IN  /\ backend' = "Dynamo"
            /\ method' = "read"
            /\ load_type' = "none"
            /\ data' = Dataset(0)
            /\ kwargs' = kw
            /\ env' = [Env0 EXCEPT !.sizes = sizes]
            /\ calls' = r.calls
            /\ logs' = r.logs
            /\ outcome' = Outcome(r)
            /\ result' = r.items
            /\ UNCHANGED table

DynamoWrite ==
    \E d \in Datasets, lt \in LoadTypes :
    \E kw \in IF lt = "update" THEN DynamoWriteKwargs ELSE {EmptyKw} :
    \E reject_at \in IF lt = "merge" THEN 0..Len(d.rows) ELSE {0} :
    \E py3 \in IF lt \in {"merge", "update"} THEN BOOLEAN ELSE {FALSE} :
        LET r == Dynamo_write(d, lt, kw, reject_at, py3)
        IN  /\ backend' = "Dynamo"
            /\ method' = "write"
            /\ load_type' = lt
            /\ data' = d
            /\ kwargs' = kw
            /\ env' = [Env0 EXCEPT !.reject_at = reject_at, !.py3 = py3]
            /\ calls' = r.calls
            /\ logs' = r.logs
            /\ outcome' = Outcome(r)
            /\ result' = <<>>
            /\ UNCHANGED table

MssqlWrite ==
    \E d \in Datasets, lt \in LoadTypes, kw \in MssqlWriteKwargs :
    \E e \in SqlEnvs(lt) :
        /\ Fits(d, lt)
        /\ LET r == Mssql_write(d, lt, kw, table, e)
           IN  /\ backend' = "Mssql"
               /\ method' = "write"
               /\ load_type' = lt
               /\ data' = d
               /\ kwargs' = kw
               /\ env' = e
               /\ calls' = r.calls
               /\ logs' = r.logs
               /\ outcome' = Outcome(r)
               /\ result' = <<>>
               /\ table' = Committed(r, table)

RedshiftWrite ==
    \E d \in Datasets, lt \in LoadTypes :
    \E e \in IF lt = "append" THEN SqlEnvs(lt) ELSE {Env0} :
        /\ Fits(d, lt)
        /\ LET r == Redshift_write(d, TableName, lt, table, e)
           IN  /\ backend' = "Redshift"
               /\ method' = "write"
               /\ load_type' = lt
               /\ data' = d
               /\ kwargs' = ("table" :> TableName)
               /\ env' = e
               /\ calls' = r.calls
               /\ logs' = r.logs
               /\ outcome' = Outcome(r)
               /\ result' = <<>>
               /\ table' = Committed(r, table)

MssqlRead ==
    \E kw \in SqlReadKwargs :
        LET r == Mssql_read(kw, table)
        IN  /\ backend' = "Mssql"
            /\ method' = "read"
            /\ load_type' = "none"
            /\ data' = Dataset(0)
            /\ kwargs' = kw
            /\ env' = Env0
            /\ calls' = r.calls
            /\ logs' = r.logs
            /\ outcome' = Outcome(r)
            /\ result' = r.items
            /\ UNCHANGED table

RedshiftRead ==
    \E kw \in SqlReadKwargs :
        LET r == Redshift_read(kw, table)
        IN  /\ backend' = "Redshift"
            /\ method' = "read"
            /\ load_type' = "none"
            /\ data' = Dataset(0)
            /\ kwargs' = kw
            /\ env' = Env0
            /\ calls' = r.calls
            /\ logs' = r.logs
            /\ outcome' = Outcome(r)
            /\ result' = r.items
            /\ UNCHANGED table

Next ==
    \/ DynamoRead
    \/ DynamoWrite
    \/ MssqlRead
    \/ MssqlWrite
    \/ RedshiftRead
    \/ RedshiftWrite

Spec == Init /\ [][Next]_vars

\* the key-value supplier alone
NextDynamo == DynamoRead \/ DynamoWrite
SpecDynamo == Init /\ [][NextDynamo]_vars

\* the relational suppliers alone
NextSql == MssqlRead \/ MssqlWrite \/ RedshiftRead \/ RedshiftWrite
SpecSql == Init /\ [][NextSql]_vars

\* write of every supplier
NextWrite == DynamoWrite \/ MssqlWrite \/ RedshiftWrite
SpecWrite == Init /\ [][NextWrite]_vars
\* ================================================================ claims
\* positions of the calls of the last call with one of the given names
At(ops) == {i \in 1..Len(calls) : calls[i].op \in ops}

\* the calls that change the store
Mutating == {"put_item", "update_item", "execute", "executemany", "commit"}

KnownTypes == {"append", "overwrite", "merge", "update"}

Relational == {"Mssql", "Redshift"}

\* the options a write needs whatever its strategy: table on Mssql
RequiredSupplied(b, kw) == b = "Mssql" => TruthyStr(kwget(kw, "table"))

\* C1: a write with a known strategy that the backend does not implement
\* (overwrite on Dynamo; merge and update on Mssql and Redshift) raises
\* NotImplementedError and issues no put, update, truncate, insert or commit.
\* (Read with the options a write needs whatever its strategy supplied.)
C1_UnimplementedRaises ==
    (/\ method = "write"
     /\ RequiredSupplied(backend, kwargs)
     /\ \/ backend = "Dynamo" /\ load_type = "overwrite"
        \/ backend \in Relational /\ load_type \in {"merge", "update"})
    => (outcome = "NotImplementedError" /\ At(Mutating) = {})

\* C2: a write with a strategy name outside append, overwrite, merge,
\* update, every required option supplied, logs at critical severity,
\* returns without raising, issues no mutating call and leaves the
\* relational table as it was, on Dynamo, Mssql and Redshift.
C2_UnrecognizedIsNoOp ==
    [][(/\ method' = "write"
        /\ load_type' \notin KnownTypes
        /\ RequiredSupplied(backend', kwargs'))
       => (/\ outcome' = "returned"
           /\ \E i \in 1..Len(logs') : logs'[i] = "critical"
           /\ \A i \in 1..Len(calls') : calls'[i].op \notin Mutating
           /\ table' = table)]_vars

C2_Witness ==
    /\ method = "write"
    /\ backend = "Mssql"
    /\ load_type = "bogus"
    /\ TruthyStr(kwget(kwargs, "table"))
    /\ table # <<>>
    /\ outcome = "returned"
\* the rows the last write handed to the bulk insert
Written == Stamp(data, env.now).rows

\* C3: after a relational write with strategy overwrite returns, the
\* target table holds exactly the rows of the dataset just written, also
\* when the truncate step failed and its error was logged and swallowed.
\* (Stated for the writes whose bulk insert the driver accepted, the case
\* the last clause is about.)
C3_OverwriteReplaces ==
    (/\ method = "write"
     /\ backend \in Relational
     /\ load_type = "overwrite"
     /\ outcome = "returned"
     /\ \A i \in At({"executemany"}) : calls[i].ok)
    => table = Written

\* C4: a failed bulk insert of a relational append or overwrite is logged
\* and the write returns normally; a put rejected during a Dynamo merge is
\* the last put of the call and an exception leaves the call.
C4_ErrorPolicy ==
    /\ (/\ method = "write"
        /\ backend \in Relational
        /\ \E i \in At({"executemany"}) : ~calls[i].ok)
       => (/\ outcome = "returned"
           /\ \E i \in 1..Len(logs) : logs[i] = "error")
    /\ (/\ method = "write"
        /\ backend = "Dynamo"
        /\ load_type = "merge")
       => \A i \in At({"put_item"}) :
             ~calls[i].ok =>
                /\ outcome # "returned"
                /\ \A j \in At({"put_item"}) : j <= i
                /\ Cardinality(At({"put_item"})) = env.reject_at
                /\ calls[i].Item = encode(data.rows[env.reject_at])

\* a merge of two records whose first put the store rejected
C4_Witness ==
    /\ method = "write"
    /\ backend = "Dynamo"
    /\ load_type = "merge"
    /\ Len(data.rows) = 2
    /\ env.reject_at = 1
    /\ \E i \in At({"put_item"}) : ~calls[i].ok

\* C5: a Dynamo write with strategy update raises EnvironmentError
\* whenever the key option or the expression option is empty or absent,
\* before any update call is issued.
C5_UpdateNeedsKeyAndExpression ==
    (/\ method = "write"
     /\ backend = "Dynamo"
     /\ load_type = "update"
     /\ \/ ~TruthyStr(kwget(kwargs, "key"))
        \/ ~TruthyStr(kwget(kwargs, "expression")))
    => (outcome = "EnvironmentError" /\ At({"update_item"}) = {})
\* items of the first p pages of the scan the last read met
Acc(p) == PageStart(env.sizes, p + 1)

\* the limit of the last read went unset
NoLimit == "limit" \notin DOMAIN kwargs

FullScan == method = "read" /\ backend = "Dynamo" /\ outcome = "returned"

\* C6: in a full-scan read a further scan is issued exactly when the last
\* response carried a continuation token and the items accumulated so far
\* do not exceed limit (no limit: unbounded).  With no limit every item of
\* every page is returned in page order (100/100/50 give 250 records);
\* with limit=120 on those pages the third page is not requested and the
\* early stop is logged at critical severity.
C6_ScanPagination ==
    FullScan =>
        LET n == Cardinality(At({"scan"}))
            MayGoOn(p) == p < Len(env.sizes) /\ (NoLimit \/ Acc(p) <= kwargs["limit"])
        IN  /\ n >= 1
            /\ \A i \in At({"scan"}) : calls[i].page = Cardinality({j \in At({"scan"}) : j <= i})
            /\ \A p \in 1..(n - 1) : MayGoOn(p)
            /\ ~MayGoOn(n)
            /\ NoLimit => /\ n = Len(env.sizes)
                          /\ result = [i \in 1..Acc(Len(env.sizes)) |-> i]
            /\ (n < Len(env.sizes)) <=> (\E i \in 1..Len(logs) : logs[i] = "critical")
            /\ (env.sizes = <<100, 100, 50>> /\ NoLimit) => Len(result) = 250
            /\ (env.sizes = <<100, 100, 50>> /\ ~NoLimit /\ kwargs["limit"] = 120)
                   => n = 2 /\ Len(result) = 120

C6_Witness ==
    /\ FullScan
    /\ env.sizes = <<100, 100, 50>>
    /\ ~NoLimit
    /\ kwargs["limit"] = 120
    /\ Cardinality(At({"scan"})) = 2
    /\ logs = <<"critical", "info">>

\* the records the last read retrieved from the store, in retrieval order
Retrieved ==
    IF backend = "Dynamo" THEN [i \in 1..Acc(Cardinality(At({"scan"}))) |-> i]
    ELSE table

\* C7: with limit set, read returns the first limit records retrieved (all
\* of them when fewer were retrieved), on Dynamo, Mssql and Redshift alike.
C7_LimitTruncates ==
    (/\ method = "read"
     /\ outcome = "returned"
     /\ TruthyInt(kwget(kwargs, "limit")))
    => result = Take(Retrieved, kwargs["limit"])
\* the update calls of the last call, in the order issued
IsUpdate(c) == c.op = "update_item"
UpdateCalls == SelectSeq(calls, IsUpdate)

\* the last call was a Dynamo update whose key option names the key column
\* and whose expression option holds n well-formed pairs over columns of
\* the dataset
ValidUpdate(n) ==
    /\ method = "write"
    /\ backend = "Dynamo"
    /\ load_type = "update"
    /\ kwget(kwargs, "key") = Some(<<"k">>)
    /\ kwget(kwargs, "expression") = Some(Expression(n))

\* the terms "target = :placeholder" of a statement's set clause
Terms(c) == split(SubSeq(c.UpdateExpression, 3, Len(c.UpdateExpression)), ",")

\* the placeholder of a term
PlaceholderOf(term) == SubSeq(term, 5, Len(term))

\* the source column of the i-th pair of Expression(n)
SourceOf(i) == IF i % 2 = 1 THEN <<"x">> ELSE <<"y">>

\* C8: a Dynamo update with valid key and expression issues one update
\* call per record, in dataset order; the call for record r is keyed by
\* r's own key values and binds, for every pair, the pair's placeholder to
\* r's own value of the pair's source column.
C8_UpdatePerRecord ==
    \A n \in PairCounts :
        ValidUpdate(n) =>
            /\ Len(UpdateCalls) = Len(data.rows)
            /\ \A r \in 1..Len(UpdateCalls) :
                 LET c    == UpdateCalls[r]
                     item == encode(data.rows[r])
                 IN  /\ c.Key = [k \in {<<"k">>} |-> item[k]]
                     /\ Len(Terms(c)) = n
                     /\ \A i \in 1..Min(n, Len(Terms(c))) :
                          LET ph == PlaceholderOf(Terms(c)[i])
                          IN  /\ Terms(c)[i][1] = TargetAttrs[i]
                              /\ ph \in DOMAIN c.ExpressionAttributeValues
                              /\ c.ExpressionAttributeValues[ph] = item[SourceOf(i)]

\* a statement a relational write sent that the driver rejected
Failed(i) == calls[i].op \in {"execute", "executemany"} /\ ~calls[i].ok

\* C9: every exit of a relational write releases the handle acquired at
\* its start, and no commit is issued in the call after one of its
\* statements (truncate, bulk insert) has failed.
C9_ReleaseAndNoCommitAfterFailure ==
    (method = "write" /\ backend \in Relational /\ At({"connect"}) # {})
    => /\ calls[Len(calls)].op = "cnxn.__exit__"
       /\ \A i \in 1..Len(calls) :
            Failed(i) => \A j \in (i + 1)..Len(calls) : calls[j].op # "commit"

\* C10: for an expression of n pairs, n > 26 included, the statement built
\* holds n bindings, the i-th pair on the i-th placeholder (two pairs: :a
\* then :b), the placeholders pairwise distinct, and both its set clause
\* and its bound values hold an entry for every pair.
C10_ExpressionBuilder ==
    \A n \in PairCounts :
        (ValidUpdate(n) /\ data.rows # <<>>) =>
            /\ UpdateCalls # <<>>
            /\ LET c  == UpdateCalls[1]
                   ph == [i \in 1..Len(Terms(c)) |-> PlaceholderOf(Terms(c)[i])]
               IN  /\ Len(Terms(c)) = n
                   /\ \A i, j \in 1..Len(ph) : i # j => ph[i] # ph[j]
                   /\ \A i \in 1..Min(Len(ph), Len(ascii_lowercase)) : ph[i] = <<":", ascii_lowercase[i]>>
                   /\ DOMAIN c.ExpressionAttributeValues = {ph[i] : i \in 1..Len(ph)}
                   /\ Cardinality(DOMAIN c.ExpressionAttributeValues) = n
====
